---- MODULE Spec2Model ----
(***************************************************************************)
(* A model of the dense polynomial class Poly<T> (src/include/Poly.h):     *)
(* its representation (coef_, deg_), its mutating operations, its          *)
(* arithmetic and calculus operators and the root solver's dispatch.       *)
(*                                                                         *)
(* The scalar type T is modelled by the rationals extended with the three  *)
(* non-finite values of IEEE arithmetic: a scalar is a pair <<n, d>>,      *)
(* finite when d > 0 (in lowest terms), +Inf = <<1,0>>, -Inf = <<-1,0>>,   *)
(* NaN = <<0,0>>.  Finite arithmetic is exact: rounding is not modelled,   *)
(* and neither is the sign of zero.                                        *)
(***************************************************************************)
EXTENDS Integers, Sequences, FiniteSets, TLC

VARIABLES
    coef_,   \* Poly::coef_ of the object the operations act on
    deg_,    \* Poly::deg_ of that object
    op,      \* the operation that ran last
    arg,     \* its inputs: the object before the call, the operands
    ret,     \* what it returned
    err,     \* the exception that left it, "none" when it returned
    steps,   \* how many operations have run
    nurbs    \* the NURBS object of the curve operations, or what is handed
             \* to de_boor_nurbs and to the NURBS constructors

vars == <<coef_, deg_, op, arg, ret, err, steps, nurbs>>

---------------------------------------------------------------------------
(* Bounds of the exploration *)

MaxLen == 4          \* longest coefficient vector handed to a constructor
MaxSteps == 1        \* operations applied to one object
MaxSolveLen == 5     \* longest coefficient vector handed to solve

---------------------------------------------------------------------------
(* Scalars *)

NaN == <<0, 0>>
PInf == <<1, 0>>
NInf == <<-1, 0>>

IAbs(n) == IF n < 0 THEN -n ELSE n
ISgn(n) == IF n < 0 THEN -1 ELSE IF n > 0 THEN 1 ELSE 0

RECURSIVE GCD(_, _)
GCD(a, b) == IF b = 0 THEN a ELSE GCD(b, a % b)

\* the finite scalar n/d, d # 0, in lowest terms with a positive denominator
Norm(n, d) ==
    LET g == GCD(IAbs(n), IAbs(d))
        s == IF d < 0 THEN -1 ELSE 1
    IN  <<(s * n) \div g, (s * d) \div g>>

\* T(k): the scalar of an integer literal
R(k) == <<k, 1>>

IsNaN(a) == a = NaN
IsInf(a) == a[2] = 0 /\ a[1] # 0
IsFin(a) == a[2] # 0
Signed(s) == IF s > 0 THEN PInf ELSE IF s < 0 THEN NInf ELSE NaN

\* a == 0 and a != 0 on T: NaN compares unequal to everything
RIsZero(a) == IsFin(a) /\ a[1] = 0
RNotZero(a) == ~RIsZero(a)

RNeg(a) == <<-a[1], a[2]>>

RAdd(a, b) ==
    IF IsNaN(a) \/ IsNaN(b) THEN NaN
    ELSE IF IsInf(a) /\ IsInf(b) THEN (IF a = b THEN a ELSE NaN)
    ELSE IF IsInf(a) THEN a
    ELSE IF IsInf(b) THEN b
    ELSE Norm(a[1] * b[2] + b[1] * a[2], a[2] * b[2])

RSub(a, b) == RAdd(a, RNeg(b))

RMul(a, b) ==
    IF IsNaN(a) \/ IsNaN(b) THEN NaN
    ELSE IF IsInf(a) \/ IsInf(b) THEN Signed(ISgn(a[1]) * ISgn(b[1]))
    ELSE Norm(a[1] * b[1], a[2] * b[2])

RDiv(a, b) ==
    IF IsNaN(a) \/ IsNaN(b) THEN NaN
    ELSE IF IsInf(a) THEN (IF IsInf(b) THEN NaN
                           ELSE IF b[1] < 0 THEN RNeg(a) ELSE a)
    ELSE IF IsInf(b) THEN R(0)
    ELSE IF b[1] = 0 THEN Signed(ISgn(a[1]))
    ELSE Norm(a[1] * b[2], a[2] * b[1])

RAbs(a) == <<IAbs(a[1]), a[2]>>

\* a < b and a > b on T: false as soon as one side is NaN
RLt(a, b) ==
    IF IsNaN(a) \/ IsNaN(b) THEN FALSE
    ELSE IF IsInf(a) THEN a = NInf /\ b # NInf
    ELSE IF IsInf(b) THEN b = PInf
    ELSE a[1] * b[2] < b[1] * a[2]

RGt(a, b) == RLt(b, a)
RGe(a, b) == RGt(a, b) \/ (~IsNaN(a) /\ a = b)

RECURSIVE FloorDivPow10(_, _)
FloorDivPow10(n, e) == IF e = 0 THEN n ELSE FloorDivPow10(n \div 10, e - 1)

\* std::abs(a) < 1e-e, without forming 10^e
RAbsLtPow10(a, e) ==
    /\ IsFin(a)
    /\ IAbs(a[1]) <= FloorDivPow10(a[2] - 1, e)

---------------------------------------------------------------------------
(* size_t: unsigned and modular.  The modulus of the build is 2^64; the    *)
(* model keeps the wrap-around with a modulus above every length it        *)
(* reaches.                                                                *)

SIZE_MOD == 2^16
SizeT(x) == x % SIZE_MOD
\* the conversion of a size_t to int
ToInt(x) == IF x >= SIZE_MOD \div 2 THEN x - SIZE_MOD ELSE x

---------------------------------------------------------------------------
(* Poly values: [coef |-> sequence of scalars, highest power first,        *)
(*               deg  |-> the cached degree]                               *)

\* Poly(std::vector<T> coef) and Poly(const std::initializer_list<T>&)
PolyVec(v) == [coef |-> v, deg |-> SizeT(Len(v) - 1)]

\* Poly(size_t deg, T value)
PolyFill(d, value) == [coef |-> [i \in 1..(d + 1) |-> value], deg |-> d]

\* Poly()
PolyDefault == [coef |-> <<R(0)>>, deg |-> 0]

\* the suffix of a vector from 0-based position i: vector(begin() + i, end())
Suffix(c, i) == SubSeq(c, i + 1, Len(c))

\* T Poly::normalize()
normalize(p) ==
    LET a0 == p.coef[1]
    IN  [coef |-> IF RNotZero(a0)
                  THEN [i \in 1..Len(p.coef) |-> RDiv(p.coef[i], a0)]
                  ELSE p.coef,
         deg |-> p.deg,
         value |-> a0]

\* void Poly::Clear()
Clear == [coef |-> <<R(0)>>, deg |-> 0]

\* the exponents of the tolerances written in the source
UPDATE_REAL_EXP == 8

\* update's loop: while (coef_[i] == T(0) && i < deg_) ++i;
RECURSIVE UpdateScan(_, _, _)
UpdateScan(c, d, i) ==
    IF RIsZero(c[i + 1]) /\ i < d THEN UpdateScan(c, d, i + 1) ELSE i

\* update_real's loop with the tolerance test made on coef_[i], not on its
\* absolute value
RECURSIVE UpdateRealScan_NoAbs(_, _, _)
UpdateRealScan_NoAbs(c, d, i) ==
    IF (IsFin(c[i + 1]) /\ (c[i + 1][1] <= 0 \/ RAbsLtPow10(c[i + 1], UPDATE_REAL_EXP)))
       /\ i < d
    THEN UpdateRealScan_NoAbs(c, d, i + 1)
    ELSE i

\* update_real's loop: while (std::abs(coef_[i]) < 1e-8 && i < deg_) ++i;
RECURSIVE UpdateRealScan(_, _, _)
UpdateRealScan(c, d, i) ==
    IF RAbsLtPow10(c[i + 1], UPDATE_REAL_EXP) /\ i < d
    THEN UpdateRealScan(c, d, i + 1)
    ELSE i

\* what update and update_real do once the scan has stopped at i
Trimmed(p, i) ==
    IF i = p.deg + 1
    THEN [coef |-> <<R(0)>>, deg |-> 0]
    ELSE [coef |-> Suffix(p.coef, i), deg |-> SizeT(p.deg - i)]

\* void Poly::update()
update(p) == Trimmed(p, UpdateScan(p.coef, p.deg, 0))

\* void Poly::update_real()
update_real(p) == Trimmed(p, UpdateRealScan(p.coef, p.deg, 0))

\* void Poly::resize(int deg), for 0 <= temp - deg <= size: the iterator
\* range is then inside the vector
resize(p, d) ==
    LET temp == ToInt(p.deg)
    IN  [coef |-> Suffix(p.coef, temp - d), deg |-> SizeT(d)]

\* antider() with the exponent of the term taken for the new exponent
antider_ShiftedExponent(p) ==
    IF p.deg = 0
    THEN PolyVec(<<p.coef[1], R(0)>>)
    ELSE PolyVec([k \in 1..(p.deg + 2) |->
                    IF k - 1 <= p.deg
                    THEN RDiv(p.coef[k], R(p.deg - (k - 1)))
                    ELSE R(0)])

\* Poly Poly::antider() const
antider(p) ==
    IF p.deg = 0
    THEN PolyVec(<<p.coef[1], R(0)>>)
    ELSE PolyVec([k \in 1..(p.deg + 2) |->
                    IF k - 1 <= p.deg
                    THEN RDiv(p.coef[k], R(p.deg - (k - 1) + 1))
                    ELSE R(0)])

\* Poly Poly::der() const
der(p) ==
    IF p.deg = 0 THEN PolyVec(<<R(0)>>)
    ELSE IF p.deg = 1 THEN PolyVec(<<p.coef[1]>>)
    ELSE PolyVec([k \in 1..p.deg |-> RMul(p.coef[k], R(p.deg - (k - 1)))])

\* Poly operator-(const Poly&): the negation
negate(p) == [coef |-> [k \in 1..(p.deg + 1) |-> RNeg(p.coef[k])], deg |-> p.deg]

\* Poly plus(const Poly& lhs, const Poly& rhs):
\*   temp = lhs; temp[deg_lhs - i] += rhs[deg_rhs - i] for i = 0..deg_rhs
plus(lhs, rhs) ==
    [coef |-> [k \in 1..Len(lhs.coef) |->
                 LET i == lhs.deg - (k - 1)
                 IN  IF i <= rhs.deg
                     THEN RAdd(lhs.coef[k], rhs.coef[rhs.deg - i + 1])
                     ELSE lhs.coef[k]],
     deg |-> lhs.deg]

\* Poly operator+(const Poly& p1, const Poly& p2)
add(p1, p2) == IF p1.deg >= p2.deg THEN plus(p1, p2) ELSE plus(p2, p1)

\* Poly operator-(const Poly& lhs, const Poly& rhs)
minus(lhs, rhs) == add(lhs, negate(rhs))

\* res[s] once the two loops are over: the sum of p1[i] * p2[j], i + j = s
RECURSIVE Convolve(_, _, _, _)
Convolve(p1, p2, s, i) ==
    IF i > p1.deg THEN R(0)
    ELSE LET j == s - i
             rest == Convolve(p1, p2, s, i + 1)
         IN  IF j >= 0 /\ j <= p2.deg
             THEN RAdd(RMul(p1.coef[i + 1], p2.coef[j + 1]), rest)
             ELSE rest

\* Poly operator*(const Poly& p1, const Poly& p2)
times(p1, p2) ==
    [coef |-> [k \in 1..(p1.deg + p2.deg + 1) |-> Convolve(p1, p2, k - 1, 0)],
     deg |-> p1.deg + p2.deg]

\* Poly operator/(const Poly& p, const T& value)
div_scalar(p, value) ==
    [coef |-> [k \in 1..(p.deg + 1) |-> RDiv(p.coef[k], value)], deg |-> p.deg]

\* the body of operator/'s outer loop with rem[i + j] -= rhs[j] * a_i, the
\* division by the leading coefficient left out
DivStep_NoLeadingDivision(rem, rhs, i) ==
    LET a_i == rem[i + 1]
    IN  [k \in 1..Len(rem) |->
           LET j == (k - 1) - i
           IN  IF j = 0 THEN R(0)
               ELSE IF j >= 1 /\ j <= rhs.deg
               THEN RSub(rem[k], RMul(rhs.coef[j + 1], a_i))
               ELSE rem[k]]

\* the body of operator/'s outer loop for one i: a_i = rem[i]; rem[i] = 0;
\* rem[i + j] -= rhs[j] * a_i / rhs[0] for j = 1..deg2
DivStep(rem, rhs, i) ==
    LET a_i == rem[i + 1]
    IN  [k \in 1..Len(rem) |->
           LET j == (k - 1) - i
           IN  IF j = 0 THEN R(0)
               ELSE IF j >= 1 /\ j <= rhs.deg
               THEN RSub(rem[k], RDiv(RMul(rhs.coef[j + 1], a_i), rhs.coef[1]))
               ELSE rem[k]]

\* operator/'s outer loop: for (int i = 0; i <= deg1 - deg2; ++i)
RECURSIVE DivLoop(_, _, _, _, _)
DivLoop(rem, res, rhs, i, last) ==
    IF i > last THEN [rem |-> rem, res |-> res]
    ELSE DivLoop(DivStep(rem, rhs, i),
                 Append(res, RDiv(rem[i + 1], rhs.coef[1])),
                 rhs, i + 1, last)

\* operator/ with the degree test off by one: if (deg1 + 1 < deg2) throw
divide_LaxGuard(lhs, rhs) ==
    IF lhs.deg + 1 < rhs.deg
    THEN [err |-> "logic_error", polys |-> <<>>]
    ELSE LET out == DivLoop(lhs.coef, <<>>, rhs, 0, lhs.deg - rhs.deg)
         IN  [err |-> "none",
              polys |-> <<PolyVec(out.res),
                          update([coef |-> out.rem, deg |-> lhs.deg])>>]

\* std::vector<Poly> operator/(const Poly& lhs, const Poly& rhs):
\* the exception thrown, and the pair {quotient, remainder} returned
divide(lhs, rhs) ==
    IF lhs.deg < rhs.deg
    THEN [err |-> "logic_error", polys |-> <<>>]
    ELSE LET out == DivLoop(lhs.coef, <<>>, rhs, 0, lhs.deg - rhs.deg)
         IN  [err |-> "none",
              polys |-> <<PolyVec(out.res),
                          update([coef |-> out.rem, deg |-> lhs.deg])>>]

\* a == b on T
REq(a, b) == ~IsNaN(a) /\ ~IsNaN(b) /\ a = b

\* bool operator==(const Poly& p1, Poly& p2): the vectors compare equal
equal(p1, p2) ==
    /\ Len(p1.coef) = Len(p2.coef)
    /\ \A k \in 1..Len(p1.coef) : REq(p1.coef[k], p2.coef[k])

---------------------------------------------------------------------------
(* Inputs *)

Vals == {R(-1), R(0), R(1)}
ArgVals == {R(0), R(-1), R(2)}

\* the coefficient vectors of length lo..hi over a set of scalars
Vecs(S, lo, hi) == UNION {[1..k -> S] : k \in lo..hi}

\* the polynomials handed to the binary operations as right operand
ArgPolys ==
    {PolyVec(v) : v \in {<<R(0)>>, <<R(1)>>, <<R(1), R(-1)>>, <<R(0), R(1)>>,
                         <<R(2), R(1)>>, <<R(1), R(0), R(-1)>>}}

---------------------------------------------------------------------------
(* The object, and the record of the last call *)

Self == [coef |-> coef_, deg |-> deg_]

\* the representation the operations rely on
Valid(p) == Len(p.coef) >= 1 /\ p.deg = Len(p.coef) - 1

NoPoly == [coef |-> <<>>, deg |-> 0]
\* no curve: the operations of Poly are run on a polynomial alone
NoCurve == [p |-> 0]
Args(rhs, value, n) == [self |-> Self, rhs |-> rhs, value |-> value, n |-> n]
NoArgs == Args(NoPoly, NaN, 0)
Rets(polys, value, eq, roots) ==
    [polys |-> polys, value |-> value, eq |-> eq, roots |-> roots]
NoRets == Rets(<<>>, NaN, FALSE, <<>>)

\* one call: the object it leaves, and what is recorded of it
Call(name, post, a, r, e) ==
    /\ coef_' = post.coef
    /\ deg_' = post.deg
    /\ op' = name
    /\ arg' = a
    /\ ret' = r
    /\ err' = e
    /\ steps' = steps + 1
    /\ nurbs' = nurbs

\* a constructed object
Constructed(p) ==
    /\ coef_ = p.coef
    /\ deg_ = p.deg
    /\ op = "ctor"
    /\ arg = [self |-> NoPoly, rhs |-> NoPoly, value |-> NaN, n |-> 0]
    /\ ret = NoRets
    /\ err = "none"
    /\ steps = 0
    /\ nurbs = NoCurve

Init ==
    \/ Constructed(PolyDefault)
    \/ \E v \in Vecs(Vals, 0, MaxLen) : Constructed(PolyVec(v))
    \/ \E d \in 0..(MaxLen - 1), value \in Vals : Constructed(PolyFill(d, value))

\* the process is alive, and the object can be read
Alive == err # "UB" /\ steps < MaxSteps
Usable == Alive /\ Valid(Self)

---------------------------------------------------------------------------
(* The mutating operations *)

ClearOp ==
    /\ Alive
    /\ Call("Clear", Clear, NoArgs, NoRets, "none")

\* Poly& operator=(const Poly& rhs)
AssignOp ==
    /\ Alive
    /\ \E rhs \in ArgPolys :
         Call("assign", [coef |-> rhs.coef, deg |-> rhs.deg],
              Args(rhs, NaN, 0), NoRets, "none")

NormalizeOp ==
    /\ Usable
    /\ LET r == normalize(Self)
       IN  Call("normalize", r, NoArgs, Rets(<<>>, r.value, FALSE, <<>>), "none")

UpdateOp ==
    /\ Usable
    /\ Call("update", update(Self), NoArgs, NoRets, "none")

UpdateRealOp ==
    /\ Usable
    /\ Call("update_real", update_real(Self), NoArgs, NoRets, "none")

\* resize(deg): defined while the range begin() + (temp - deg) .. end() lies in
\* the vector; with deg > temp the iterator is moved before begin(), which is
\* undefined: the process dies, or the vector is built from what lies before
\* the buffer
ResizeOp ==
    /\ Usable
    /\ \E d \in (-1)..(ToInt(deg_) + 1) :
         IF ToInt(deg_) - d >= 0
         THEN Call("resize", resize(Self, d), Args(NoPoly, NaN, d), NoRets, "none")
         ELSE \/ Call("resize", Self, Args(NoPoly, NaN, d), NoRets, "UB")
           \/ \E g \in Vals :
                   Call("resize", [coef |-> <<g>> \o coef_, deg |-> SizeT(d)],
                        Args(NoPoly, NaN, d), NoRets, "none")

\* Poly& operator+=(const Poly& rhs)
PlusAssignOp ==
    /\ Usable
    /\ \E rhs \in ArgPolys :
         Call("plus_assign", add(Self, rhs), Args(rhs, NaN, 0), NoRets, "none")

\* Poly& operator+=(const T& rhs)
PlusAssignScalarOp ==
    /\ Usable
    /\ \E value \in ArgVals :
         Call("plus_assign_scalar",
              [coef |-> [coef_ EXCEPT ![deg_ + 1] = RAdd(@, value)], deg |-> deg_],
              Args(NoPoly, value, 0), NoRets, "none")

\* Poly& operator-=(const Poly& rhs)
MinusAssignOp ==
    /\ Usable
    /\ \E rhs \in ArgPolys :
         Call("minus_assign", minus(Self, rhs), Args(rhs, NaN, 0), NoRets, "none")

\* Poly& operator*=(const Poly& rhs)
TimesAssignOp ==
    /\ Usable
    /\ \E rhs \in ArgPolys :
         Call("times_assign", times(Self, rhs), Args(rhs, NaN, 0), NoRets, "none")

\* Poly& operator*=(T rhs)
TimesAssignScalarOp ==
    /\ Usable
    /\ \E value \in ArgVals :
         Call("times_assign_scalar",
              [coef |-> [k \in 1..(deg_ + 1) |-> RMul(coef_[k], value)], deg |-> deg_],
              Args(NoPoly, value, 0), NoRets, "none")

\* Poly& operator/=(T value)
DivAssignScalarOp ==
    /\ Usable
    /\ \E value \in ArgVals :
         Call("div_assign_scalar",
              [coef |-> [k \in 1..(deg_ + 1) |-> RDiv(coef_[k], value)], deg |-> deg_],
              Args(NoPoly, value, 0), NoRets, "none")

\* Poly& operator/=(const Poly& poly): *this = (*this / poly)[0]
DivAssignOp ==
    /\ Usable
    /\ \E rhs \in ArgPolys :
         LET r == divide(Self, rhs)
         IN  IF r.err # "none"
             THEN Call("div_assign", Self, Args(rhs, NaN, 0), NoRets, r.err)
             ELSE Call("div_assign", r.polys[1], Args(rhs, NaN, 0), NoRets, "none")

---------------------------------------------------------------------------
(* The operators that leave the object alone *)

\* operator/(const Poly&, const Poly&) on the object and an operand
DivOp ==
    /\ Usable
    /\ \E rhs \in ArgPolys :
         LET r == divide(Self, rhs)
         IN  Call("div", Self, Args(rhs, NaN, 0), Rets(r.polys, NaN, FALSE, <<>>), r.err)

\* operator/(const Poly&, const T&) on the object and a scalar
DivScalarOp ==
    /\ Usable
    /\ \E value \in ArgVals :
         Call("div_scalar", Self, Args(NoPoly, value, 0),
              Rets(<<div_scalar(Self, value)>>, NaN, FALSE, <<>>), "none")

\* the expression A + B - B == A on the object A and an operand B
PlusMinusOp ==
    /\ Usable
    /\ \E rhs \in ArgPolys :
         LET sum == add(Self, rhs)
             back == minus(sum, rhs)
         IN  Call("plus_minus", Self, Args(rhs, NaN, 0),
                  Rets(<<sum, back>>, NaN, equal(back, Self), <<>>), "none")

\* antider() of the object, and der() of the result
DerAntiderOp ==
    /\ Usable
    /\ LET F == antider(Self)
       IN  Call("der_antider", Self, NoArgs, Rets(<<F, der(F)>>, NaN, FALSE, <<>>), "none")

\* an operation that reads coef_[0..deg_] on an object whose vector is empty
\* reads outside the buffer: undefined, nothing is known afterwards
InvalidUse ==
    /\ Alive
    /\ ~Valid(Self)
    /\ Call("invalid_use", Self, NoArgs, NoRets, "UB")

Next ==
    \/ ClearOp
    \/ AssignOp
    \/ NormalizeOp
    \/ UpdateOp
    \/ UpdateRealOp
    \/ ResizeOp
    \/ PlusAssignOp
    \/ PlusAssignScalarOp
    \/ MinusAssignOp
    \/ TimesAssignOp
    \/ TimesAssignScalarOp
    \/ DivAssignScalarOp
    \/ DivAssignOp
    \/ DivOp
    \/ DivScalarOp
    \/ PlusMinusOp
    \/ DerAntiderOp
    \/ InvalidUse

Spec == Init /\ [][Next]_vars

---------------------------------------------------------------------------
(* The root solver.  A root is returned as a pair {multiplicity, value}; the *)
(* values are square roots, cosines, eigenvalues and Laguerre iterates,      *)
(* which the scalar model does not hold: an entry keeps the multiplicity, a  *)
(* tag saying which formula gave the value, and, for a Laguerre iterate, the *)
(* value of the step counter k when the iteration was left.                  *)

Root(m, tag) == [mult |-> m, root |-> tag, iter |-> 0]
Returned(roots) == [err |-> "none", roots |-> roots]

\* the exponents of the tolerances written in the source
POLY_EPS_EXP == 15
CUBIC_EPS_EXP == 12
LAGUERRE_ZERO_EXP == 16
\* the step cap of the Laguerre iteration
LAGUERRE_STEPS == 1000

\* solve_quadratic(poly): the list returned for the coefficients c
solve_quadratic(c) ==
    LET a == c[1]
        b == c[2]
        cc == c[3]
        D == RSub(RMul(b, b), RMul(RMul(R(4), a), cc))
    IN  IF RAbsLtPow10(D, POLY_EPS_EXP) THEN <<Root(2, "-b/2a")>>
        ELSE IF RGt(D, R(0)) THEN <<Root(1, "(-b+sqrt(D))/2a"), Root(1, "(-b-sqrt(D))/2a")>>
        ELSE <<Root(1, "complex+"), Root(1, "complex-")>>

\* the lists solve_quadratic can return for the quotient of the cubic by
\* x - root: its discriminant depends on the value of the Cardano root
QuadraticOfQuotient ==
    { <<Root(2, "-b/2a")>>,
      <<Root(1, "(-b+sqrt(D))/2a"), Root(1, "(-b-sqrt(D))/2a")>>,
      <<Root(1, "complex+"), Root(1, "complex-")>> }

\* solve_cubic(poly): the lists it can return for the coefficients c
solve_cubic(c) ==
    LET a == RDiv(c[2], c[1])
        b == RDiv(c[3], c[1])
        cc == RDiv(c[4], c[1])
        q == RSub(RMul(a, a), RMul(R(3), b))
        r == RAdd(RSub(RMul(RMul(RMul(R(2), a), a), a), RMul(RMul(R(9), a), b)),
                  RMul(R(27), cc))
        Q == RDiv(q, R(9))
        RR == RDiv(r, R(54))
        Q3 == RMul(RMul(Q, Q), Q)
        R2 == RMul(RR, RR)
        CR2 == RMul(RMul(R(729), r), r)
        CQ3 == RMul(RMul(RMul(R(2916), q), q), q)
    IN  IF RAbsLtPow10(RR, CUBIC_EPS_EXP) /\ RAbsLtPow10(Q, CUBIC_EPS_EXP)
        THEN {<<Root(3, "-a/3")>>}
        ELSE IF RAbsLtPow10(RSub(CR2, CQ3), CUBIC_EPS_EXP)
        THEN IF RGt(RR, R(0))
             THEN {<<Root(1, "-2sqrtQ-a/3"), Root(2, "sqrtQ-a/3")>>}
             ELSE {<<Root(2, "-sqrtQ-a/3"), Root(1, "2sqrtQ-a/3")>>}
        ELSE IF RLt(R2, Q3)
        THEN {<<Root(1, "cos0"), Root(1, "cos+"), Root(1, "cos-")>>}
        ELSE {Append(quad, Root(1, "cardano")) : quad \in QuadraticOfQuotient}

\* solve_with_eigenvalues(poly): one simple root per eigenvalue of the n x n
\* companion matrix
solve_with_eigenvalues(p) == [i \in 1..p.deg |-> Root(1, "eigenvalue")]

\* upper_bound(poly), on the moduli of the coefficient ratios
RECURSIVE UpperBoundLoop(_, _, _)
UpperBoundLoop(c, i, bound) ==
    IF i > Len(c) - 1 THEN bound
    ELSE LET ratio == RAbs(RDiv(c[i + 1], c[1]))
         IN  UpperBoundLoop(c, i + 1, IF RGt(ratio, bound) THEN ratio ELSE bound)

upper_bound(c) == RAdd(R(1), UpperBoundLoop(c, 2, RAbs(RDiv(c[2], c[1]))))

\* lower_bound(poly)
lower_bound(c) == RDiv(R(1), upper_bound(c))

\* solve_laguerre's first loop: while (std::abs(poly[deg-k]) < 1e-16) ++k;
\* -1 when the scan leaves the vector at its front
RECURSIVE ZeroTail(_, _, _)
ZeroTail(c, d, k) ==
    IF d - k < 0 THEN -1
    ELSE IF RAbsLtPow10(c[d - k + 1], LAGUERRE_ZERO_EXP) THEN ZeroTail(c, d, k + 1)
    ELSE k

\* one run of the inner loop, for (k = 0; k < 1000; ++k), from the starting
\* point x: the k it is left with and the x it leaves.  From NaN, p.eval(x) and
\* the correction a are NaN and neither test of the loop can hold: every step
\* is made.  From a number the iterates are complex numbers the scalar model
\* does not hold; the loop is then left by one of its tests, at a k below the
\* cap (the first and the last are drawn)
LaguerreIteration(start) ==
    IF start = "nan"
    THEN {[iter |-> LAGUERRE_STEPS, x |-> "nan"]}
    ELSE {[iter |-> k, x |-> "num"] : k \in {0, LAGUERRE_STEPS - 1}}

\* the outer loop, while (d < deg): the entries pushed by the n rounds left.
\* Deflation by x - NaN leaves NaN coefficients and lower_bound is NaN again;
\* deflation by a number keeps p[0] and, when p[0] is zero, p[1], so the next
\* lower_bound is a number again
RECURSIVE LaguerreRounds(_, _)
LaguerreRounds(n, start) ==
    IF n = 0 THEN {<<>>}
    ELSE UNION { { <<[mult |-> 1,
                      root |-> IF e.x = "nan" THEN "nan" ELSE "laguerre",
                      iter |-> e.iter]>> \o rest :
                    rest \in LaguerreRounds(n - 1, e.x) } :
                 e \in LaguerreIteration(start) }

\* solve_laguerre(poly): what it can return or throw.  On a polynomial whose
\* coefficients are all below 1e-16 the first loop reads poly[-1], poly[-2],
\* ... before the buffer: the process dies; or the word before the buffer
\* stops the scan at k = deg + 1, Poly p(deg - k, 0) is then built with
\* deg_ = SIZE_MAX and an empty vector, and {k, 0} alone is returned; or the
\* scan stops further out and the vector of Poly p cannot be allocated
solve_laguerre(p) ==
    LET d == ToInt(p.deg)
        k == ZeroTail(p.coef, d, 0)
        stripped == IF k # 0 THEN <<Root(k, "zero")>> ELSE <<>>
        work == SubSeq(p.coef, 1, d - k + 1)
    IN  IF k = -1
        THEN {[err |-> "UB", roots |-> <<>>],
              Returned(<<Root(d + 1, "zero")>>),
              [err |-> "length_error", roots |-> <<>>]}
        ELSE IF d - k = 0 THEN {Returned(stripped)}
        ELSE {Returned(stripped \o rounds) :
                rounds \in LaguerreRounds(d - k,
                                          IF IsNaN(lower_bound(work)) THEN "nan" ELSE "num")}

\* solve_numerical(poly, type)
solve_numerical(p, type) ==
    IF type = 1 THEN {Returned(solve_with_eigenvalues(p))} ELSE solve_laguerre(p)

\* Poly::solve(type): what it can return or throw
solve(p, type) ==
    IF p.deg = 1 THEN {Returned(<<Root(1, "-c1/c0")>>)}
    ELSE IF p.deg = 2 THEN {Returned(solve_quadratic(p.coef))}
    ELSE IF p.deg = 3 THEN {Returned(roots) : roots \in solve_cubic(p.coef)}
    ELSE IF p.deg >= 4 THEN solve_numerical(p, type)
    ELSE {Returned(<<Root(1, "0")>>)}

\* solve(type) on the object
SolveOp ==
    /\ Usable
    /\ \E type \in {1, 2} :
         \E out \in solve(Self, type) :
           Call("solve", Self, Args(NoPoly, NaN, type),
                Rets(<<>>, NaN, FALSE, out.roots), out.err)

InitSolve == \E v \in Vecs(Vals, 1, MaxSolveLen) : Constructed(PolyVec(v))

SpecSolve == InitSolve /\ [][SolveOp]_vars

\* the tolerance trimming is checked on: zero, values below, at and above
\* the tolerance of update_real
Tiny == <<1, 1000000000>>
AtTolerance == <<1, 100000000>>
TrimVals == {R(0), Tiny, AtTolerance, R(1), R(-1)}
MaxTrimLen == 3

InitTrim == \E v \in Vecs(TrimVals, 1, MaxTrimLen) : Constructed(PolyVec(v))

NextTrim == UpdateOp \/ UpdateRealOp

SpecTrim == InitTrim /\ [][NextTrim]_vars

---------------------------------------------------------------------------
(* The rational curve (src/unnamed/part_000).  Vectors are 0-based in the  *)
(* source and 1-based here: knots[i] of the source is knots[i + 1].  A     *)
(* Point is the sequence of its dim coordinates.                            *)

MaxDegree == 2       \* largest degree p of a curve
MaxSpans == 2        \* most knot spans of the domain, n_cv - p

\* Poly operator*(const Poly& p, T value), and operator*(T value, const Poly& p)
times_scalar(p, value) ==
    IF REq(value, R(0)) THEN PolyVec(<<R(0)>>)
    ELSE [coef |-> [i \in 1..(p.deg + 1) |-> RMul(p.coef[i], value)], deg |-> p.deg]

\* de_boor_nurbs, the first loop: d_den[i][0] = weights[i + k - p] and
\* d[i][j][0] = points[i + k - p][j] * weights[i + k - p] on default polynomials
DeBoorStart(k, knots, weights, points, p) ==
    LET dim == Len(points[1])
    IN  [d |-> [i \in 1..(p + 1) |->
                  [c \in 1..dim |->
                     PolyVec(<<RMul(points[i + k - p][c], weights[i + k - p])>>)]],
         d_den |-> [i \in 1..(p + 1) |-> PolyVec(<<weights[i + k - p]>>)],
         dens |-> <<>>]

\* (cur * Poly{1,0} + B * cur + prev * Poly{-1,0} + D * prev) / den
DeBoorBlend(cur, prev, B, D, den) ==
    LET temp1 == add(times(cur, PolyVec(<<R(1), R(0)>>)), times_scalar(cur, B))
        temp2 == add(times(prev, PolyVec(<<R(-1), R(0)>>)), times_scalar(prev, D))
    IN  div_scalar(add(temp1, temp2), den)

\* the inner loop taken upwards, for (int j = r; j < p + 1; ++j): the j
\* handed in counts down, the entry treated is r + p - j
RECURSIVE DeBoorInner_Ascending(_, _, _, _, _, _)
DeBoorInner_Ascending(st, knots, k, p, r, j) ==
    IF j <= r - 1 THEN st
    ELSE LET jj == r + p - j
             den == RSub(knots[jj + 1 + k - r + 1], knots[jj + k - p + 1])
             B == RNeg(knots[jj + k - p + 1])
             D == knots[jj + 1 + k - r + 1]
             dim == Len(st.d[1])
         IN  DeBoorInner_Ascending(
                 [d |-> [i \in 1..(p + 1) |->
                           IF i = jj + 1
                           THEN [c \in 1..dim |->
                                   DeBoorBlend(st.d[jj + 1][c], st.d[jj][c], B, D, den)]
                           ELSE st.d[i]],
                  d_den |-> [i \in 1..(p + 1) |->
                               IF i = jj + 1
                               THEN DeBoorBlend(st.d_den[jj + 1], st.d_den[jj], B, D, den)
                               ELSE st.d_den[i]],
                  dens |-> Append(st.dens, den)],
                 knots, k, p, r, j - 1)

\* de_boor_nurbs, the inner loop: for (int j = p; j > r - 1; --j)
RECURSIVE DeBoorInner(_, _, _, _, _, _)
DeBoorInner(st, knots, k, p, r, j) ==
    IF j <= r - 1 THEN st
    ELSE LET den == RSub(knots[j + 1 + k - r + 1], knots[j + k - p + 1])
             B == RNeg(knots[j + k - p + 1])
             D == knots[j + 1 + k - r + 1]
             dim == Len(st.d[1])
         IN  DeBoorInner(
                 [d |-> [i \in 1..(p + 1) |->
                           IF i = j + 1
                           THEN [c \in 1..dim |->
                                   DeBoorBlend(st.d[j + 1][c], st.d[j][c], B, D, den)]
                           ELSE st.d[i]],
                  d_den |-> [i \in 1..(p + 1) |->
                               IF i = j + 1
                               THEN DeBoorBlend(st.d_den[j + 1], st.d_den[j], B, D, den)
                               ELSE st.d_den[i]],
                  dens |-> Append(st.dens, den)],
                 knots, k, p, r, j - 1)

\* de_boor_nurbs, the outer loop: for (int r = 1; r < p + 1; ++r); rounds
\* keeps d, d_den and the divisors as each round leaves them
RECURSIVE DeBoorRounds(_, _, _, _, _, _)
DeBoorRounds(st, rounds, knots, k, p, r) ==
    IF r >= p + 1 THEN rounds
    ELSE LET next == DeBoorInner([st EXCEPT !.dens = <<>>], knots, k, p, r, p)
         IN  DeBoorRounds(next, Append(rounds, next), knots, k, p, r + 1)

\* Rational<T> de_boor_nurbs(k, knots, weights, points, p): the pair returned,
\* with the entries it started from and the rounds it made
de_boor_nurbs(k, knots, weights, points, p) ==
    LET start == DeBoorStart(k, knots, weights, points, p)
        rounds == DeBoorRounds(start, <<>>, knots, k, p, 1)
        last == IF rounds = <<>> THEN start ELSE rounds[Len(rounds)]
    IN  [first |-> last.d[p + 1], second |-> last.d_den[p + 1],
         start |-> start, rounds |-> rounds]

\* what a curve is built from: the degree, a non-decreasing knot vector of
\* n_cv + p + 1 knots over 0, 1, 2, one weight and one control point for each
\* of the n_cv control points
KnotVectors(n) ==
    {[i \in 1..n |-> R(f[i])] :
       f \in {g \in [1..n -> 0..2] : \A i \in 1..(n - 1) : g[i] <= g[i + 1]}}
WeightVectors(n) ==
    {[i \in 1..n |-> R(1)], [i \in 1..n |-> R(1 + (i % 2))], [i \in 1..n |-> R(i)]}
ControlPoints(n) ==
    {[i \in 1..n |-> <<R(i)>>], [i \in 1..n |-> <<R(i), R(i * i)>>]}
CurveInputs ==
    UNION {{[p |-> p, knots |-> kn, weights |-> w, cv |-> cv] :
              kn \in KnotVectors(p + spans + p + 1),
              w \in WeightVectors(p + spans),
              cv \in ControlPoints(p + spans)} :
             p \in 1..MaxDegree, spans \in 1..MaxSpans}

\* the state before a call that is handed c
Handed(c) ==
    /\ coef_ = PolyDefault.coef
    /\ deg_ = PolyDefault.deg
    /\ op = "input"
    /\ arg = NoArgs
    /\ ret = NoRets
    /\ err = "none"
    /\ steps = 0
    /\ nurbs = c

\* de_boor_nurbs on a knot span k of the domain that is not empty, as
\* create_coefs calls it
DeBoorOp ==
    /\ Alive
    /\ \E k \in nurbs.p..(Len(nurbs.knots) - nurbs.p - 2) :
         /\ RLt(nurbs.knots[k + 1], nurbs.knots[k + 2])
         /\ Call("de_boor_nurbs", Self, [k |-> k],
                 de_boor_nurbs(k, nurbs.knots, nurbs.weights, nurbs.cv, nurbs.p),
                 "none")

InitDeBoor == \E c \in CurveInputs : Handed(c)

SpecDeBoor == InitDeBoor /\ [][DeBoorOp]_vars

---------------------------------------------------------------------------
(* The NURBS object and its constructors.  create_knots, create_intervals  *)
(* and linspace come from tools.h: they are modelled from what the          *)
(* specification says of them.                                              *)

MaxSegments == 4     \* most segments of a curve built on generated knots

\* linspace(a, b, n): n values evenly spaced from a to b
linspace(a, b, n) ==
    [i \in 1..n |-> IF n = 1 THEN a
                    ELSE RAdd(a, RDiv(RMul(R(i - 1), RSub(b, a)), R(n - 1)))]

\* create_knots(n, p): the open uniform knot vector of n control points on
\* [0, 1]: p + 1 zeros, the interior knots i / (n - p), p + 1 ones
create_knots(n, p) ==
    [i \in 1..(n + p + 1) |->
       IF i <= p + 1 THEN R(0)
       ELSE IF i > n THEN R(1)
       ELSE RDiv(R(i - p - 1), R(n - p))]

\* create_intervals(domain, knots): the indices k of the knot spans
\* [knots[k], knots[k+1]] of the domain that are not empty, in order, and the
\* index that ends the domain
RECURSIVE create_intervals(_, _)
create_intervals(domain, knots) ==
    IF domain[1] >= domain[2] THEN <<domain[2]>>
    ELSE LET rest == create_intervals(<<domain[1] + 1, domain[2]>>, knots)
         IN  IF RLt(knots[domain[1] + 1], knots[domain[1] + 2])
             THEN <<domain[1]>> \o rest
             ELSE rest

\* void create_coefs(): coefs[i] = de_boor_nurbs(ks[i], knots, weights, cv, p)
create_coefs(c, ks) ==
    [i \in 1..(Len(ks) - 1) |->
       LET frac == de_boor_nurbs(ks[i], c.knots, c.weights, c.cv, c.p)
       IN  [first |-> frac.first, second |-> frac.second]]

\* the element of a set of one element: { f(x) : x \in {e} } has e worked out
\* once, whatever the number of places f uses it in
Only(S) == CHOOSE x \in S : TRUE

\* one call made by a polishing pass on segment i (0-based): update_real or
\* resize(1) on the denominator (part 0) or on the numerator of coordinate
\* part - 1; log keeps the calls in the order they are made
Touch(st, i, part, how) ==
    LET frac == st.coefs[i + 1]
        treat(q) == IF how = "resize" THEN resize(q, 1) ELSE update_real(q)
        new == IF part = 0
               THEN [frac EXCEPT !.second = treat(frac.second)]
               ELSE [first |-> [c \in 1..Len(frac.first) |->
                                  IF c = part THEN treat(frac.first[c])
                                  ELSE frac.first[c]],
                     second |-> frac.second]
    IN  [coefs |-> [k \in 1..Len(st.coefs) |-> IF k = i + 1 THEN new ELSE st.coefs[k]],
         log |-> Append(st.log, [seg |-> i, part |-> part, how |-> how]),
         calls |-> st.calls]

\* for (int d = 0; d < dim; ++d) coefs[i].first[d].update_real(eps_);
RECURSIVE TouchNumerators(_, _, _, _)
TouchNumerators(st, i, d, dim) ==
    IF d >= dim THEN st
    ELSE Only({TouchNumerators(next, i, d + 1, dim) :
                 next \in {Touch(st, i, d + 1, "update_real")}})

\* void polishing(): for (auto& frac : coefs)
RECURSIVE polishing(_, _, _)
polishing(st, i, dim) ==
    IF i >= Len(st.coefs) THEN st
    ELSE Only({polishing(TouchNumerators(next, i, 0, dim), i + 1, dim) :
                 next \in {Touch(st, i, 0, "update_real")}})

\* polishing_uniform, the first loop: for (int i = 0; i < p - 1; ++i), with
\* the two numerator calls of each d one after the other
RECURSIVE UniformEdgeNumerators(_, _, _, _, _)
UniformEdgeNumerators(st, i, len, d, dim) ==
    IF d >= dim THEN st
    ELSE Only({UniformEdgeNumerators(
                   Only({Touch(next, len - i - 1, d + 1, "update_real")}),
                   i, len, d + 1, dim) :
                 next \in {Touch(st, i, d + 1, "update_real")}})

RECURSIVE UniformEdges(_, _, _, _, _)
UniformEdges(st, i, len, p, dim) ==
    IF i >= p - 1 THEN st
    ELSE Only({UniformEdges(
                   UniformEdgeNumerators(
                       Only({Touch(next, len - i - 1, 0, "update_real")}),
                       i, len, 0, dim),
                   i + 1, len, p, dim) :
                 next \in {Touch(st, i, 0, "update_real")}})

\* polishing_uniform, the second loop with its bound one short:
\* for (int i = p - 1; i < len - p; ++i)
RECURSIVE UniformInterior_OneShort(_, _, _, _, _)
UniformInterior_OneShort(st, i, len, p, dim) ==
    IF i >= len - p THEN st
    ELSE Only({UniformInterior_OneShort(TouchNumerators(next, i, 0, dim), i + 1, len, p, dim) :
                 next \in {Touch(st, i, 0, "resize")}})

\* polishing_uniform, the second loop: for (int i = p - 1; i < len - p + 1; ++i)
RECURSIVE UniformInterior(_, _, _, _, _)
UniformInterior(st, i, len, p, dim) ==
    IF i >= len - p + 1 THEN st
    ELSE Only({UniformInterior(TouchNumerators(next, i, 0, dim), i + 1, len, p, dim) :
                 next \in {Touch(st, i, 0, "resize")}})

\* void polishing_uniform()
polishing_uniform(st, p, dim) ==
    LET len == Len(st.coefs)
    IN  IF len <= 2 * (p - 1)
        THEN polishing([st EXCEPT !.calls = Append(st.calls, "polishing")], 0, dim)
        ELSE Only({UniformInterior(edges, p - 1, len, p, dim) :
                     edges \in {UniformEdges(st, 0, len, p, dim)}})

\* what the three constructors share: dim, domain, ks, N_segments,
\* create_coefs(), and the polishing pass each of them ends with
Build(p, knots, weights, cv, pass) ==
    LET dim == Len(cv[1])
        domain == <<p, Len(knots) - p - 1>>
        polished(st) == IF pass = "polishing_uniform"
                        THEN polishing_uniform(st, p, dim)
                        ELSE polishing(st, 0, dim)
        made(ks, built, done) ==
            [object |-> [p |-> p, dim |-> dim, N_segments |-> Len(ks) - 1,
                         knots |-> knots, weights |-> weights, cv |-> cv,
                         domain |-> domain, ks |-> ks, coefs |-> done.coefs],
             built |-> built, calls |-> done.calls, log |-> done.log]
    IN  Only({made(ks, built, done) :
                <<ks, built, done>> \in
                  {<<k, b, polished([coefs |-> b, log |-> <<>>,
                                     calls |-> <<"create_coefs", pass>>])>> :
                     <<k, b>> \in
                       {<<k, create_coefs([p |-> p, knots |-> knots,
                                           weights |-> weights, cv |-> cv], k)>> :
                          k \in {create_intervals(domain, knots)}}}})

\* NURBS(int p_, std::vector<T>& knots_, std::vector<T>& weights_, cv_)
NURBS_knots(p, knots, weights, cv) == Build(p, knots, weights, cv, "polishing")

\* NURBS(int p_, std::vector<T>& weights_, cv_)
NURBS_weights(p, weights, cv) ==
    Build(p, create_knots(Len(cv), p), weights, cv, "polishing")

\* NURBS(int p_, T w_start, T w_end, cv_)
NURBS_uniform(p, w_start, w_end, cv) ==
    Build(p, create_knots(Len(cv), p), linspace(w_start, w_end, Len(cv)), cv,
          "polishing_uniform")

\* what the second and the third constructor are handed
WeightInputs ==
    UNION {{[p |-> p, weights |-> w, cv |-> cv] :
              w \in WeightVectors(p + len), cv \in ControlPoints(p + len)} :
             p \in 1..MaxDegree, len \in 1..MaxSegments}
UniformInputs ==
    UNION {{[p |-> p, w_start |-> R(a), w_end |-> R(b), cv |-> cv] :
              a \in 1..2, b \in 1..2, cv \in ControlPoints(p + len)} :
             p \in 1..MaxDegree, len \in 1..MaxSegments}

\* a constructor has run: the object it leaves, and what it did
Built(name, out) ==
    /\ coef_' = coef_
    /\ deg_' = deg_
    /\ op' = name
    /\ arg' = [input |-> nurbs]
    /\ ret' = [built |-> out.built, calls |-> out.calls, log |-> out.log]
    /\ err' = "none"
    /\ steps' = steps + 1
    /\ nurbs' = out.object

NurbsKnotsOp ==
    /\ op = "input" /\ nurbs.kind = 1
    /\ Built("NURBS", NURBS_knots(nurbs.p, nurbs.knots, nurbs.weights, nurbs.cv))

NurbsWeightsOp ==
    /\ op = "input" /\ nurbs.kind = 2
    /\ Built("NURBS", NURBS_weights(nurbs.p, nurbs.weights, nurbs.cv))

NurbsUniformOp ==
    /\ op = "input" /\ nurbs.kind = 3
    /\ Built("NURBS", NURBS_uniform(nurbs.p, nurbs.w_start, nurbs.w_end, nurbs.cv))

InitCtor ==
    \/ \E c \in CurveInputs :
         Handed([kind |-> 1, p |-> c.p, knots |-> c.knots, weights |-> c.weights, cv |-> c.cv])
    \/ \E c \in WeightInputs :
         Handed([kind |-> 2, p |-> c.p, weights |-> c.weights, cv |-> c.cv])
    \/ \E c \in UniformInputs :
         Handed([kind |-> 3, p |-> c.p, w_start |-> c.w_start, w_end |-> c.w_end, cv |-> c.cv])

NextCtor == NurbsKnotsOp \/ NurbsWeightsOp \/ NurbsUniformOp

SpecCtor == InitCtor /\ [][NextCtor]_vars

---------------------------------------------------------------------------
(* Sampling a constructed curve *)

MaxSamples == 4      \* most samples asked of get_points and get_dy_dx_points

\* a <= b on T
RLe(a, b) == RGe(b, a)

\* T Poly::At(const T& x): b = coef_[0]; for d = 1..deg_: b = coef_[d] + b * x
RECURSIVE AtLoop(_, _, _, _)
AtLoop(q, x, b, d) ==
    IF d > q.deg THEN b ELSE AtLoop(q, x, RAdd(q.coef[d + 1], RMul(b, x)), d + 1)
At(q, x) == AtLoop(q, x, q.coef[1], 1)

\* knots[ks[j]], both vectors 0-based
Boundary(c, j) == c.knots[c.ks[j + 1] + 1]

\* get_points: points[i][d] = coefs[j].first[d].At(t) / coefs[j].second.At(t)
PointAt(c, j, t) ==
    [d \in 1..c.dim |->
       RDiv(At(c.coefs[j + 1].first[d], t), At(c.coefs[j + 1].second, t))]

\* get_dy_dx_points: (y' den - y den') / (x' den - x den') at t
SlopeAt(c, j, t) ==
    LET p_x == c.coefs[j + 1].first[1]
        p_y == c.coefs[j + 1].first[2]
        den == c.coefs[j + 1].second
    IN  RDiv(RSub(RMul(At(der(p_y), t), At(den, t)), RMul(At(p_y, t), At(der(den), t))),
             RSub(RMul(At(der(p_x), t), At(den, t)), RMul(At(p_x, t), At(der(den), t))))

\* the two loops of get_points and get_dy_dx_points,
\*   for (j = 0; j < N_segments; ++j)
\*     while (t <= knots[ks[j+1]] && i < N) { points[i] = ...; ++i; t = ts[i]; }
\* s keeps j, i, t, the writes of points and the reads of ts in the order they
\* are made.  ts has N entries: the read of ts[N] is outside the vector and
\* gives whatever lies behind it, beyond
RECURSIVE SampleScan(_, _, _, _, _)
SampleScan(c, ts, N, beyond, s) ==
    IF s.j >= c.N_segments THEN s
    ELSE IF RLe(s.t, Boundary(c, s.j + 1)) /\ s.i < N
    THEN SampleScan(c, ts, N, beyond,
                    [j |-> s.j,
                     i |-> s.i + 1,
                     t |-> IF s.i + 1 < N THEN ts[s.i + 2] ELSE beyond,
                     writes |-> Append(s.writes, [i |-> s.i, seg |-> s.j, t |-> s.t]),
                     reads |-> Append(s.reads, s.i + 1)])
    ELSE SampleScan(c, ts, N, beyond, [s EXCEPT !.j = s.j + 1])

\* what both functions do around the loops: ts = linspace(knots[domain.first],
\* knots[domain.second], N), t = knots[domain.first], i = 0
Scanned(c, N, beyond) ==
    LET ts == linspace(c.knots[c.domain[1] + 1], c.knots[c.domain[2] + 1], N)
        s == SampleScan(c, ts, N, beyond,
                        [j |-> 0, i |-> 0, t |-> c.knots[c.domain[1] + 1],
                         writes |-> <<>>, reads |-> <<>>])
    IN  [ts |-> ts, writes |-> s.writes, reads |-> s.reads]

\* the writes of points[i], and the last of them
WritesOf(writes, i) == {n \in 1..Len(writes) : writes[n].i = i}
LastWrite(writes, i) ==
    writes[CHOOSE n \in WritesOf(writes, i) : \A m \in WritesOf(writes, i) : m <= n]

\* std::vector<Point<T>> get_points(int N): points(N, Point<T>(dim)) at first
get_points(c, N, beyond) ==
    LET s == Scanned(c, N, beyond)
    IN  [points |-> [n \in 1..N |->
                       IF WritesOf(s.writes, n - 1) # {}
                       THEN PointAt(c, LastWrite(s.writes, n - 1).seg,
                                    LastWrite(s.writes, n - 1).t)
                       ELSE [d \in 1..c.dim |-> R(0)]],
         ts |-> s.ts, writes |-> s.writes, reads |-> s.reads]

\* std::vector<T> get_dy_dx_points(int N): points(N, 0.0) at first
get_dy_dx_points(c, N, beyond) ==
    LET s == Scanned(c, N, beyond)
    IN  [points |-> [n \in 1..N |->
                       IF WritesOf(s.writes, n - 1) # {}
                       THEN SlopeAt(c, LastWrite(s.writes, n - 1).seg,
                                    LastWrite(s.writes, n - 1).t)
                       ELSE R(0)],
         ts |-> s.ts, writes |-> s.writes, reads |-> s.reads]

\* a call on the constructed curve: the object is left as it is.  A read
\* outside ts is undefined: the process dies there, or the call goes on with
\* the value read
ReadsInside(out, N) == \A n \in 1..Len(out.reads) : out.reads[n] \in 0..(N - 1)

Sample(name, N, out) ==
    /\ coef_' = coef_
    /\ deg_' = deg_
    /\ op' = name
    /\ arg' = [N |-> N]
    /\ steps' = steps + 1
    /\ nurbs' = nurbs
    /\ \/ err' = "none" /\ ret' = out
       \/ /\ ~ReadsInside(out, N)
          /\ err' = "UB"
          /\ ret' = [out EXCEPT !.points = <<>>]

\* what can lie behind ts
Beyond == {R(0), NaN}

\* get_points, get_dy_dx_points and analytic_integral1 read the object and
\* leave it as it is: a call that follows another call does what it does on
\* the curve as constructed, and one call is taken on each curve
Fresh == op = "NURBS" /\ err = "none"

GetPointsOp ==
    /\ Fresh
    /\ \E N \in 1..MaxSamples, beyond \in Beyond :
         Sample("get_points", N, get_points(nurbs, N, beyond))

\* coefs[j].first[1] is read: the curve has two coordinates at least
GetDyDxPointsOp ==
    /\ Fresh
    /\ nurbs.dim >= 2
    /\ \E N \in 1..MaxSamples, beyond \in Beyond :
         Sample("get_dy_dx_points", N, get_dy_dx_points(nurbs, N, beyond))

---------------------------------------------------------------------------
(* analytic_integral1 *)

\* the body of the loop for one segment, once roots = den.solve(type) has
\* returned: den.normalize(), then the divisions by den and, for every root,
\* by x - root; each operator/ throws when its dividend has the lower degree.
\* integral and integral_type_1 (integral.h) are taken to return
SegmentBody(frac, roots) ==
    LET n_roots == Len(roots)
        normed == normalize(frac.second)
        den == [coef |-> normed.coef, deg |-> normed.deg]
        p_x == frac.first[1]
        p_y == frac.first[2]
        div1 == divide(p_y, den)
        div2 == divide(der(p_x), den)
        num == add(times(div1.polys[1], div2.polys[2]),
                   times(div2.polys[1], div1.polys[2]))
        div3 == divide(num, den)
        div2x == divide(p_x, den)
        P_12 == times(div1.polys[1], div2x.polys[1])
        numx == add(times(div1.polys[1], div2x.polys[2]),
                    times(div2x.polys[1], div1.polys[2]))
        div4 == divide(numx, den)
    IN  IF div1.err # "none" THEN div1.err
        ELSE IF div2.err # "none" THEN div2.err
        ELSE IF div3.err # "none" THEN div3.err
        ELSE IF div2x.err # "none" THEN div2x.err
        ELSE IF div4.err # "none" THEN div4.err
        ELSE IF n_roots >= 1 /\ P_12.deg < 1 THEN "logic_error"
        ELSE IF n_roots >= 1 /\ div4.polys[1].deg < 1 THEN "logic_error"
        ELSE "none"

\* how the body can end on one segment
SegmentIntegral(frac, type) ==
    {IF out.err # "none" THEN out.err ELSE SegmentBody(frac, out.roots) :
       out \in solve(frac.second, type)}

\* the clipping with its second test leaving the loop:
\* if (to < t0) break;
RECURSIVE IntegralScan_BreakBelow(_, _, _, _, _, _)
IntegralScan_BreakBelow(c, type, t0, t1, i, parts) ==
    IF i >= c.N_segments THEN {[err |-> "none", parts |-> parts]}
    ELSE LET from == Boundary(c, i)
             to == Boundary(c, i + 1)
             part == [seg |-> i,
                      from |-> IF RLt(from, t0) THEN t0 ELSE from,
                      to |-> IF RGt(to, t1) THEN t1 ELSE to]
         IN  IF RGt(from, t1) THEN {[err |-> "none", parts |-> parts]}
             ELSE IF RLt(to, t0) THEN {[err |-> "none", parts |-> parts]}
             ELSE UNION {IF e = "none"
                         THEN IntegralScan_BreakBelow(c, type, t0, t1, i + 1,
                                                      Append(parts, part))
                         ELSE {[err |-> e, parts |-> Append(parts, part)]} :
                           e \in SegmentIntegral(c.coefs[i + 1], type)}

\* analytic_integral1, the loop: for (int i = 0; i < N_segments; ++i) with
\*   from = knots[ks[i]]; to = knots[ks[i+1]];
\*   if (from > t1) break;  if (to < t0) continue;
\*   from = from < t0 ? t0 : from;  to = to > t1 ? t1 : to;
\* parts keeps the segments whose body is entered, with the bounds they are
\* integrated over
RECURSIVE IntegralScan(_, _, _, _, _, _)
IntegralScan(c, type, t0, t1, i, parts) ==
    IF i >= c.N_segments THEN {[err |-> "none", parts |-> parts]}
    ELSE LET from == Boundary(c, i)
             to == Boundary(c, i + 1)
             part == [seg |-> i,
                      from |-> IF RLt(from, t0) THEN t0 ELSE from,
                      to |-> IF RGt(to, t1) THEN t1 ELSE to]
         IN  IF RGt(from, t1) THEN {[err |-> "none", parts |-> parts]}
             ELSE IF RLt(to, t0) THEN IntegralScan(c, type, t0, t1, i + 1, parts)
             ELSE UNION {IF e = "none"
                         THEN IntegralScan(c, type, t0, t1, i + 1, Append(parts, part))
                         ELSE {[err |-> e, parts |-> Append(parts, part)]} :
                           e \in SegmentIntegral(c.coefs[i + 1], type)}

\* std::complex<T> analytic_integral1(int type, T t0, T t1)
analytic_integral1(c, type, t0, t1) == IntegralScan(c, type, t0, t1, 0, <<>>)

\* the bounds handed to analytic_integral1
Bounds == {R(-1), R(0), <<1, 2>>, R(1), <<5, 4>>, <<3, 2>>, R(2), R(3)}

\* coefs[i].first[1] is read: the curve has two coordinates at least
AnalyticIntegral1Op ==
    /\ Fresh
    /\ nurbs.dim >= 2
    /\ \E type \in {1, 2}, t0 \in Bounds, t1 \in Bounds :
         \E out \in analytic_integral1(nurbs, type, t0, t1) :
           /\ coef_' = coef_
           /\ deg_' = deg_
           /\ op' = "analytic_integral1"
           /\ arg' = [type |-> type, t0 |-> t0, t1 |-> t1]
           /\ ret' = [parts |-> out.parts]
           /\ err' = out.err
           /\ steps' = steps + 1
           /\ nurbs' = nurbs

\* a curve one of the constructors has built, of one segment at least
ConstructedCurve(object) ==
    /\ object.N_segments >= 1
    /\ coef_ = PolyDefault.coef
    /\ deg_ = PolyDefault.deg
    /\ op = "NURBS"
    /\ arg = NoArgs
    /\ ret = NoRets
    /\ err = "none"
    /\ steps = 0
    /\ nurbs = object

InitCurve ==
    \/ \E c \in CurveInputs :
         ConstructedCurve(NURBS_knots(c.p, c.knots, c.weights, c.cv).object)
    \/ \E c \in WeightInputs :
         ConstructedCurve(NURBS_weights(c.p, c.weights, c.cv).object)
    \/ \E c \in UniformInputs :
         ConstructedCurve(NURBS_uniform(c.p, c.w_start, c.w_end, c.cv).object)

NextCurve == GetPointsOp \/ GetDyDxPointsOp

SpecCurve == InitCurve /\ [][NextCurve]_vars

\* the curves analytic_integral1 is called on: solve works on the denominator
\* of every segment, of the degree of the curve
MaxIntegralDegree == 1

InitIntegral ==
    \/ \E c \in CurveInputs :
         /\ c.p <= MaxIntegralDegree
         /\ ConstructedCurve(NURBS_knots(c.p, c.knots, c.weights, c.cv).object)
    \/ \E c \in WeightInputs :
         /\ c.p <= MaxIntegralDegree
         /\ ConstructedCurve(NURBS_weights(c.p, c.weights, c.cv).object)
    \/ \E c \in UniformInputs :
         /\ c.p <= MaxIntegralDegree
         /\ ConstructedCurve(NURBS_uniform(c.p, c.w_start, c.w_end, c.cv).object)

NextIntegral == AnalyticIntegral1Op

SpecIntegral == InitIntegral /\ [][NextIntegral]_vars

---------------------------------------------------------------------------
(* Properties *)

AllFinite(p) == \A k \in 1..Len(p.coef) : IsFin(p.coef[k])
Leading(p) == p.coef[1]
Constant(p) == p.coef[Len(p.coef)]
X3 == <<R(1), R(0), R(0), R(0)>>
XMinus1 == <<R(1), R(-1)>>

\* C1 (as claimed): after construction and after every mutating operation the
\* coefficient sequence is non-empty and deg_ is its length minus one.
C1_RepInvariant ==
    err # "UB" => (Len(coef_) >= 1 /\ deg_ = Len(coef_) - 1)

\* the case C2 speaks of: operator/ returned, on finite polynomials with a
\* nonzero leading coefficient of the divisor
C2_Case ==
    /\ op = "div"
    /\ err = "none"
    /\ AllFinite(arg.self)
    /\ AllFinite(arg.rhs)
    /\ RNotZero(Leading(arg.rhs))

C2_Identity ==
    LET Q == ret.polys[1]
        Rm == ret.polys[2]
    IN  /\ add(times(arg.rhs, Q), Rm).coef = arg.self.coef
        /\ (arg.self.coef = X3 /\ arg.rhs.coef = XMinus1)
             => (Q.coef = <<R(1), R(1), R(1)>> /\ Rm.coef = <<R(1)>>)

C3_DegreeError ==
    (op \in {"div", "div_assign"} /\ arg.self.deg < arg.rhs.deg) =>
        /\ err = "logic_error"
        /\ ret.polys = <<>>
        /\ op = "div_assign" => (coef_ = arg.self.coef /\ deg_ = arg.self.deg)

C3_Witness ==
    /\ op = "div_assign"
    /\ arg.self.deg < arg.rhs.deg
    /\ err = "logic_error"
    /\ Len(coef_) = 2

\* C4 (as claimed): dividing by the scalar zero fails instead of producing a
\* polynomial.
C4_DivideByZero ==
    (op \in {"div_scalar", "div_assign_scalar"} /\ RIsZero(arg.value)) =>
        (err # "none" /\ ret.polys = <<>>)

\* C5 (as claimed): A + B - B == A for all polynomials A and B.
C5_PlusMinus ==
    (op = "plus_minus" /\ AllFinite(arg.self) /\ AllFinite(arg.rhs)) => ret.eq

C8_Normalize ==
    (op = "normalize" /\ AllFinite(arg.self)) =>
        LET a0 == Leading(arg.self)
        IN  IF RIsZero(a0)
            THEN coef_ = arg.self.coef /\ ret.value = R(1)
            ELSE /\ ret.value = a0
                 /\ coef_ = [k \in 1..Len(arg.self.coef) |-> RDiv(arg.self.coef[k], a0)]

\* the two tests of trimming, stated on the scalar itself
C7_NearZero(x) ==
    IF op = "update" THEN x = R(0)
    ELSE IsFin(x) /\ IAbs(x[1]) * 10^8 < x[2]

\* the length of the maximal run of leading (near-)zero coefficients
C7_LeadRun(c) ==
    CHOOSE k \in 0..Len(c) :
        /\ \A j \in 1..k : C7_NearZero(c[j])
        /\ k = Len(c) \/ ~C7_NearZero(c[k + 1])

\* C7: update and update_real remove the maximal run of leading (near-)zero
\* coefficients, down to one coefficient at least, and keep the others in
\* order; afterwards the leading coefficient is not (near-)zero or one
\* coefficient is left; an all-zero input gives [0]; a trimmed polynomial is
\* left as it is.
C7_Trim ==
    (op \in {"update", "update_real"}) =>
        LET pre == arg.self.coef
            run == C7_LeadRun(pre)
            cut == IF run = Len(pre) THEN Len(pre) - 1 ELSE run
        IN  /\ coef_ = Suffix(pre, cut)
            /\ deg_ = Len(coef_) - 1
            /\ ~C7_NearZero(coef_[1]) \/ Len(coef_) = 1
            /\ (\A j \in 1..Len(pre) : pre[j] = R(0)) => (coef_ = <<R(0)>> /\ deg_ = 0)
            /\ (~C7_NearZero(pre[1]) \/ Len(pre) = 1)
                  => (coef_ = pre /\ deg_ = arg.self.deg)

C7_Witness ==
    /\ op = "update_real"
    /\ arg.self.coef = <<Tiny, R(0), R(1)>>
    /\ coef_ = <<R(1)>>
    /\ deg_ = 0

RECURSIVE C9_Sum(_)
C9_Sum(roots) == IF roots = <<>> THEN 0 ELSE Head(roots).mult + C9_Sum(Tail(roots))

\* C9 (as claimed): the multiplicities of the list solve returns sum to the
\* degree of the polynomial, on every branch.
C9_MultiplicitySum ==
    (op = "solve" /\ err = "none") => C9_Sum(ret.roots) = arg.self.deg

\* C10 (as claimed): a Laguerre iteration that used all its steps ends in an
\* error, and its x is not among the roots returned.
C10_NonConvergence ==
    (op = "solve" /\ err = "none") =>
        \A i \in 1..Len(ret.roots) : ret.roots[i].iter < LAGUERRE_STEPS

\* C11 (as claimed): every loop ends with its index inside its array; for
\* solve_laguerre, the scan of the zero tail stops at a coefficient of the
\* polynomial (an all-zero polynomial included), the round made by the inner
\* loop takes at most LAGUERRE_STEPS steps and solve returns.
C11_LoopsInBounds ==
    (op = "solve" /\ arg.self.deg >= 4 /\ arg.n = 2) =>
        /\ ZeroTail(arg.self.coef, ToInt(arg.self.deg), 0) \in 0..ToInt(arg.self.deg)
        /\ err = "none"
        /\ \A i \in 1..Len(ret.roots) : ret.roots[i].iter <= LAGUERRE_STEPS

\* the blend of C14 written out on the coefficients: the coefficient m (highest
\* power first) of ((x - lo) * cur + (hi - x) * prev) / (hi - lo), for cur and
\* prev of r coefficients
C14_BlendCoef(cur, prev, lo, hi, m) ==
    LET r == Len(cur.coef)
        up(q) == IF m <= r THEN q.coef[m] ELSE R(0)
        low(q) == IF m >= 2 THEN q.coef[m - 1] ELSE R(0)
    IN  RDiv(RAdd(RSub(up(cur), RMul(lo, low(cur))),
                  RSub(RMul(hi, low(prev)), up(prev))),
             RSub(hi, lo))

C14_Blended(new, cur, prev, lo, hi, r) ==
    /\ new.deg = r
    /\ Len(new.coef) = r + 1
    /\ \A m \in 1..(r + 1) : new.coef[m] = C14_BlendCoef(cur, prev, lo, hi, m)

\* C14: de_boor_nurbs makes exactly p rounds; round r leaves the entries
\* j = r..p of d and d_den with degree r, each blended from entry j and entry
\* j - 1 as round r - 1 left them, and leaves the other entries alone; every
\* divisor knots[j+1+k-r] - knots[j+k-p] is nonzero; the numerators and the
\* denominator returned have degree p and p + 1 coefficients.
C14_DeBoor ==
    (op = "de_boor_nurbs") =>
        LET p == nurbs.p
            k == arg.k
            dim == Len(nurbs.cv[1])
            before(r) == IF r = 1 THEN ret.start ELSE ret.rounds[r - 1]
        IN  /\ Len(ret.rounds) = p
            /\ \A r \in 1..p :
                  LET now == ret.rounds[r]
                      was == before(r)
                  IN  /\ Len(now.dens) = p - r + 1
                      /\ \A j \in r..p :
                            LET lo == nurbs.knots[j + k - p + 1]
                                hi == nurbs.knots[j + 1 + k - r + 1]
                            IN  /\ now.dens[p - j + 1] = RSub(hi, lo)
                                /\ RNotZero(RSub(hi, lo))
                                /\ C14_Blended(now.d_den[j + 1], was.d_den[j + 1],
                                               was.d_den[j], lo, hi, r)
                                /\ \A c \in 1..dim :
                                      C14_Blended(now.d[j + 1][c], was.d[j + 1][c],
                                                  was.d[j][c], lo, hi, r)
                      /\ \A j \in 0..(r - 1) :
                            /\ now.d_den[j + 1] = was.d_den[j + 1]
                            /\ now.d[j + 1] = was.d[j + 1]
            /\ ret.second.deg = p /\ Len(ret.second.coef) = p + 1
            /\ \A c \in 1..dim :
                  ret.first[c].deg = p /\ Len(ret.first[c].coef) = p + 1

C14_Witness ==
    /\ op = "de_boor_nurbs"
    /\ nurbs.p = 2
    /\ Len(ret.rounds) = 2
    /\ ret.rounds[1].d_den[2].deg = 1
    /\ ret.second.deg = 2
    /\ ret.second.coef[1] # R(0)

\* the calls the pass made on part (0: the denominator, c: the numerator of
\* coordinate c - 1) of segment i, and the segments a kind of call reached
C15_Calls(i, part) ==
    {n \in 1..Len(ret.log) : ret.log[n].seg = i /\ ret.log[n].part = part}
C15_Reached(how) ==
    {ret.log[n].seg : n \in {m \in 1..Len(ret.log) :
                                ret.log[m].part = 0 /\ ret.log[m].how = how}}

\* C15: a constructor builds all the segments and then runs one polishing
\* pass, which makes one call on the denominator and one on each numerator of
\* every segment.  In polishing_uniform with len > 2(p-1) the denominators of
\* 0..p-2 and len-p+1..len-1 are trimmed and those of p-1..len-p resized to
\* degree 1: three sets, pairwise disjoint, that cover 0..len-1; with
\* len <= 2(p-1) polishing is run on every segment.
C15_OnePass ==
    (op = "NURBS") =>
        LET len == Len(nurbs.coefs)
            p == nurbs.p
            general == ret.calls[Len(ret.calls)] = "polishing"
            low == 0..(p - 2)
            high == (len - p + 1)..(len - 1)
            mid == (p - 1)..(len - p)
        IN  /\ len = nurbs.N_segments /\ len = Len(nurbs.ks) - 1
            /\ Len(ret.built) = len
            /\ ret.calls[1] = "create_coefs"
            /\ arg.input.kind \in {1, 2} => ret.calls = <<"create_coefs", "polishing">>
            /\ arg.input.kind = 3 =>
                  ret.calls = IF len <= 2 * (p - 1)
                              THEN <<"create_coefs", "polishing_uniform", "polishing">>
                              ELSE <<"create_coefs", "polishing_uniform">>
            /\ \A i \in 0..(len - 1) : \A part \in 0..nurbs.dim :
                  Cardinality(C15_Calls(i, part)) = 1
            /\ \A n \in 1..Len(ret.log) : ret.log[n].seg \in 0..(len - 1)
            /\ general => C15_Reached("update_real") = 0..(len - 1)
                           /\ C15_Reached("resize") = {}
            /\ ~general =>
                  /\ C15_Reached("update_real") = low \cup high
                  /\ C15_Reached("resize") = mid
                  /\ low \cap high = {} /\ low \cap mid = {} /\ mid \cap high = {}
                  /\ low \cup mid \cup high = 0..(len - 1)
                  /\ \A i \in mid : nurbs.coefs[i + 1].second.deg = 1

C15_Witness ==
    /\ op = "NURBS"
    /\ arg.input.kind = 3
    /\ nurbs.p = 2
    /\ Len(nurbs.coefs) = 4
    /\ C15_Reached("update_real") = {0, 3}
    /\ C15_Reached("resize") = {1, 2}

\* C12: in analytic_integral1(type, t0, t1) with t0 <= t1, a segment [a, b]
\* is integrated exactly when it overlaps [t0, t1], over
\* [max(a, t0), min(b, t1)], whose lower bound is not above its upper bound;
\* a segment wholly below t0 or wholly above t1 is never integrated.  When a
\* segment's body throws, the loop ends there: the segments before it obey the
\* same rule
C12_Overlaps(j) ==
    /\ RLe(Boundary(nurbs, j), arg.t1)
    /\ RGe(Boundary(nurbs, j + 1), arg.t0)

C12_Integrated(j) == \E n \in 1..Len(ret.parts) : ret.parts[n].seg = j

C12_Clipping ==
    (op = "analytic_integral1" /\ RLe(arg.t0, arg.t1)) =>
        /\ \A n \in 1..Len(ret.parts) :
             LET part == ret.parts[n]
                 a == Boundary(nurbs, part.seg)
                 b == Boundary(nurbs, part.seg + 1)
             IN  /\ part.seg \in 0..(nurbs.N_segments - 1)
                 /\ C12_Overlaps(part.seg)
                 /\ REq(part.from, IF RGt(arg.t0, a) THEN arg.t0 ELSE a)
                 /\ REq(part.to, IF RLt(arg.t1, b) THEN arg.t1 ELSE b)
                 /\ RLe(part.from, part.to)
                 /\ \A m \in 1..(n - 1) : ret.parts[m].seg < part.seg
        /\ \A j \in 0..(nurbs.N_segments - 1) :
             (/\ C12_Overlaps(j)
              /\ \/ err = "none"
                 \/ j < ret.parts[Len(ret.parts)].seg)
               => C12_Integrated(j)

\* a call that returns on a curve of two segments, the first one below t0 and
\* the second one cut at t1
C12_Witness ==
    /\ op = "analytic_integral1"
    /\ err = "none"
    /\ nurbs.N_segments >= 2
    /\ RLt(Boundary(nurbs, 1), arg.t0)
    /\ RLt(arg.t0, arg.t1)
    /\ RLt(arg.t1, Boundary(nurbs, 2))
    /\ Len(ret.parts) = 1
    /\ ret.parts[1].seg = 1
    /\ REq(ret.parts[1].from, arg.t0)
    /\ REq(ret.parts[1].to, arg.t1)

\* C13: get_points(N) returns N points; entry i is written once, with
\* numerator / denominator of the owning segment at the i-th parameter, the
\* owning segment being the first j with knots[ks[j+1]] >= that parameter;
\* the segment index does not decrease as i grows
C13_Owner(t) ==
    CHOOSE j \in 0..(nurbs.N_segments - 1) :
      /\ RLe(t, Boundary(nurbs, j + 1))
      /\ \A k \in 0..(j - 1) : ~RLe(t, Boundary(nurbs, k + 1))

C13_Written ==
    /\ Len(ret.points) = arg.N
    /\ Len(ret.writes) = arg.N
    /\ \A i \in 0..(arg.N - 1) :
         /\ ret.writes[i + 1].i = i
         /\ REq(ret.writes[i + 1].t, ret.ts[i + 1])
         /\ \E j \in 0..(nurbs.N_segments - 1) : RLe(ret.ts[i + 1], Boundary(nurbs, j + 1))
         /\ ret.writes[i + 1].seg = C13_Owner(ret.ts[i + 1])
         /\ ret.points[i + 1] = PointAt(nurbs, C13_Owner(ret.ts[i + 1]), ret.ts[i + 1])
         /\ \A k \in 0..(i - 1) : ret.writes[k + 1].seg <= ret.writes[i + 1].seg

C13_Points == op = "get_points" => (err = "none" /\ C13_Written)

\* C16: in get_points(N) and get_dy_dx_points(N) every read of ts and every
\* write of the output uses an index in 0..N-1, the read that follows the
\* last write included
C16_IndicesInside ==
    op \in {"get_points", "get_dy_dx_points"} =>
        /\ \A n \in 1..Len(ret.reads) : ret.reads[n] \in 0..(arg.N - 1)
        /\ \A n \in 1..Len(ret.writes) : ret.writes[n].i \in 0..(arg.N - 1)

====
